---------------------------- MODULE Spec2Model ----------------------------
(***************************************************************************)
(* The request scheduler of src/src/omnisharp/requestQueue.ts:             *)
(* three RequestQueue objects (Priority, Normal, Deferred) owned by one    *)
(* RequestQueueCollection.                                                 *)
(*                                                                         *)
(* Requests are numbered 1, 2, ... in the order of their enqueue call; a   *)
(* request is enqueued at most once.  The code is single threaded, so a    *)
(* top-level call (enqueue, dequeue, cancelRequest, drain) runs to its end *)
(* unless it calls the injected _makeRequest function.  The model stops    *)
(* inside every _makeRequest call (frame # NoFrame): there the callback    *)
(* may call enqueue or drain again before it returns the sequence id.      *)
(* _makeRequest itself belongs to the server object, which is not among    *)
(* the sources at hand: it is taken to return 1, 2, 3, ... and not to      *)
(* throw.  The text of the cancellation error is not modelled.             *)
(***************************************************************************)
EXTENDS Integers, Sequences, FiniteSets, TLC

\* Bounds of the model: the number of requests ever enqueued (MaxReq in
\* Spec, MaxLoad in SpecLoad) and the largest concurrency argument.
MaxReq == 3
MaxLoad == 4
MaxConcurrency == 2
\* The number of requests when the allow-lists are arbitrary.
MaxClassify == 2
\* The largest concurrency argument when the caps are the subject: the
\* Deferred cap leaves its floor of 2 at concurrency 12.
MaxCapsConcurrency == 12
\* The largest concurrency argument and the number of request numbers of the
\* client that never stops.
MaxLiveConcurrency == 1
MaxLive == 3
\* The number of requests enqueued after the worked scenario's six.
MaxExtra == 1

\* prioritization.ts is not part of the sources at hand: one command of
\* each class stands for its list.
PriorityCommands == {"UpdateBuffer"}
NormalCommands == {"FindUsages"}
Commands == {"UpdateBuffer", "FindUsages", "CodeCheck"}

QueueNames == {"Priority", "Normal", "Deferred"}

Max(a, b) == IF a >= b THEN a ELSE b

VARIABLES
    concurrency,   \* the constructor's concurrency argument
    lists,         \* the allow-lists of prioritization.ts
    pending,       \* queue name -> RequestQueue._pending
    waiting,       \* queue name -> RequestQueue._waiting (id -> request)
    isProcessing,  \* RequestQueueCollection._isProcessing
    frame,         \* the processPending call that is inside _makeRequest
    nextId,        \* the sequence id the next _makeRequest call returns
    command,       \* request -> its command (request r is command[r])
    dispatched,    \* history: the requests _makeRequest was invoked for
    onErrorCalls,  \* history: request -> number of onError invocations
    returned,      \* history: request -> number of times dequeue returned it
    passPrio,      \* history: the running drain pass began with Priority pending
    passEnq,       \* history: requests enqueued reentrantly in the running pass
    thrown,        \* history: the requests whose _makeRequest call threw
    emitted,       \* history: the events the last step passed to sink.onNext
    lastOp         \* history: the call that made the last step

vars == <<concurrency, lists, pending, waiting, isProcessing, frame, nextId,
          command, dispatched, onErrorCalls, returned, passPrio, passEnq, thrown,
          emitted, lastOp>>

\* The worked scenario: five Normal requests, then one Priority request.
Scenario == <<"FindUsages", "FindUsages", "FindUsages", "FindUsages",
              "FindUsages", "UpdateBuffer">>

Requests == 1..Max(Max(Max(MaxReq, MaxLoad), MaxLive), Len(Scenario) + MaxExtra)
Enqueued == 1..Len(command)

NoFrame == [queue |-> "none", i |-> 0, slots |-> 0, item |-> 0]
NoOp == [op |-> "init", req |-> 0, tag |-> ""]

-----------------------------------------------------------------------------
\* The Deferred cap with the quotient rounded up.
MaxSizeCeiling(q) ==
    CASE q = "Priority" -> 1
      [] q = "Normal" -> concurrency
      [] q = "Deferred" -> Max((concurrency + 3) \div 4, 2)

\* The Deferred cap with a floor of three.
MaxSizeFloorThree(q) ==
    CASE q = "Priority" -> 1
      [] q = "Normal" -> concurrency
      [] q = "Deferred" -> Max(concurrency \div 4, 3)

\* RequestQueueCollection.constructor: the three caps.
MaxSize(q) ==
    CASE q = "Priority" -> 1
      [] q = "Normal" -> concurrency
      [] q = "Deferred" -> Max(concurrency \div 4, 2)

\* isPriorityCommand / isNormalCommand of prioritization.ts.
isPriorityCommand(cmd) == cmd \in lists.priority
isNormalCommand(cmd) == cmd \in lists.normal

\* getQueue that asks isNormalCommand first.
getQueueNormalFirst(cmd) ==
    IF isNormalCommand(cmd) THEN "Normal"
    ELSE IF isPriorityCommand(cmd) THEN "Priority"
    ELSE "Deferred"

\* RequestQueueCollection.getQueue.
getQueue(cmd) ==
    IF isPriorityCommand(cmd) THEN "Priority"
    ELSE IF isNormalCommand(cmd) THEN "Normal"
    ELSE "Deferred"

\* RequestQueue.hasPending and RequestQueue.isFull, on explicit collections.
hasPending(pend, q) == Len(pend[q]) > 0
isFull(wait, q) == Cardinality(DOMAIN wait[q]) >= MaxSize(q)

\* isEmpty that forgets the Priority queue.
isEmptyNoPriority(pend) ==
    ~hasPending(pend, "Deferred") /\ ~hasPending(pend, "Normal")

\* RequestQueueCollection.isEmpty.
isEmpty(pend) ==
    /\ ~hasPending(pend, "Deferred")
    /\ ~hasPending(pend, "Normal")
    /\ ~hasPending(pend, "Priority")

\* Array.indexOf on a sequence: the first position of x, or 0.
indexOf(s, x) ==
    IF \E k \in 1..Len(s) : s[k] = x
    THEN CHOOSE k \in 1..Len(s) : s[k] = x /\ \A j \in 1..(k - 1) : s[j] # x
    ELSE 0

\* Array.splice(index, 1).
splice(s, k) == SubSeq(s, 1, k - 1) \o SubSeq(s, k + 1, Len(s))

\* dequeue that does not delete the entry it returns.
dequeueNoDelete(wait, cmd, id) ==
    LET q == getQueue(cmd)
    IN  IF id \in DOMAIN wait[q]
        THEN [request |-> wait[q][id], waiting |-> wait, event |-> TRUE]
        ELSE [request |-> 0, waiting |-> wait, event |-> FALSE]

\* dequeue that looks the id up in the waiting map of every queue.
dequeueAnyQueue(wait, cmd, id) ==
    IF \E q \in QueueNames : id \in DOMAIN wait[q]
    THEN LET q == CHOOSE p \in QueueNames : id \in DOMAIN wait[p]
         IN  [request |-> wait[q][id],
              waiting |-> [wait EXCEPT ![q] = [k \in (DOMAIN @) \ {id} |-> @[k]]],
              event |-> TRUE]
    ELSE [request |-> 0, waiting |-> wait, event |-> FALSE]

\* RequestQueueCollection.dequeue(cmd, id): the request it returns (0 for
\* undefined), the waiting maps it leaves and whether it emitted the
\* dequeue event.
dequeue(wait, cmd, id) ==
    LET q == getQueue(cmd)
    IN  IF id \in DOMAIN wait[q]
        THEN [request |-> wait[q][id],
              waiting |-> [wait EXCEPT ![q] = [k \in (DOMAIN @) \ {id} |-> @[k]]],
              event |-> TRUE]
        ELSE [request |-> 0, waiting |-> wait, event |-> FALSE]

\* cancelRequest that fails the request but leaves it in pending.
cancelRequestNoSplice(pend, r) ==
    LET q == getQueue(command[r])
        index == indexOf(pend[q], r)
    IN  [pending |-> pend, onError |-> index # 0]

\* cancelRequest that also fails a request found in waiting.
cancelRequestWaitingToo(pend, r) ==
    LET q == getQueue(command[r])
        index == indexOf(pend[q], r)
    IN  IF index # 0
        THEN [pending |-> [pend EXCEPT ![q] = splice(@, index)], onError |-> TRUE]
        ELSE [pending |-> pend,
              onError |-> \E id \in DOMAIN waiting[q] : waiting[q][id] = r]

\* RequestQueueCollection.cancelRequest(r): the pending sequences it leaves
\* and whether it invoked r's onError.
cancelRequest(pend, r) ==
    LET q == getQueue(command[r])
        index == indexOf(pend[q], r)
    IN  IF index # 0
        THEN [pending |-> [pend EXCEPT ![q] = splice(@, index)], onError |-> TRUE]
        ELSE [pending |-> pend, onError |-> FALSE]

-----------------------------------------------------------------------------
\* The events the queues pass to sink.onNext.
OmnisharpServerEnqueueRequest(name, cmd) ==
    [type |-> "EnqueueRequest", name |-> name, command |-> cmd, id |-> 0]

OmnisharpServerDequeueRequest(name, cmd, id) ==
    [type |-> "DequeueRequest", name |-> name, command |-> cmd, id |-> id]

OmnisharpServerProcessRequestStart(name) ==
    [type |-> "ProcessRequestStart", name |-> name, command |-> "", id |-> 0]

OmnisharpServerProcessRequestComplete ==
    [type |-> "ProcessRequestComplete", name |-> "", command |-> "", id |-> 0]

\* sink.onNext(ev), then what res stands for.
onNext(ev, res) == [res EXCEPT !.events = <<ev>> \o @]

-----------------------------------------------------------------------------
\* Control flow of a drain pass.  Each operator gives the scheduler's state
\* at the next point where control leaves the scheduler: inside a
\* _makeRequest call (frame names the request) or back in the caller of
\* drain (frame = NoFrame).

\* A pass that ends without clearing the guard.
ReturnedGuardKept(pend) ==
    [pending |-> pend, frame |-> NoFrame, isProcessing |-> TRUE, events |-> <<>>]

\* drain, lines 176 and 188: the pass ends.
Returned(pend) ==
    [pending |-> pend, frame |-> NoFrame, isProcessing |-> FALSE, events |-> <<>>]

RECURSIVE processPending(_, _, _)

\* drain without the return of line 177: it goes on to Normal and Deferred
\* after Priority.
afterProcessFallThrough(q, pend, wait) ==
    IF q = "Priority" /\ hasPending(pend, "Normal")
    THEN processPending("Normal", pend, wait)
    ELSE IF q \in {"Priority", "Normal"} /\ hasPending(pend, "Deferred")
    THEN processPending("Deferred", pend, wait)
    ELSE Returned(pend)

\* drain after a processPending call has returned: return after Priority,
\* go on to Deferred after Normal.
afterProcess(q, pend, wait) ==
    IF q = "Normal" /\ hasPending(pend, "Deferred")
    THEN processPending("Deferred", pend, wait)
    ELSE Returned(pend)

\* processPending that leaves without the event of line 104.
completeSilent(q, pend, wait) == afterProcess(q, pend, wait)

\* processPending, line 104: the loop is left, the complete event is emitted
\* and the call returns to drain.
complete(q, pend, wait) ==
    onNext(OmnisharpServerProcessRequestComplete, afterProcess(q, pend, wait))

\* The loop head without the test i < slots.
loopNoSlotCheck(q, i, slots, pend, wait) ==
    IF Len(pend[q]) > 0
    THEN [pending |-> [pend EXCEPT ![q] = Tail(@)],
          frame |-> [queue |-> q, i |-> i, slots |-> slots, item |-> Head(pend[q])],
          isProcessing |-> TRUE, events |-> <<>>]
    ELSE complete(q, pend, wait)

\* The loop head popping the newest request instead of the oldest.
loopPop(q, i, slots, pend, wait) ==
    IF i < slots /\ Len(pend[q]) > 0
    THEN [pending |-> [pend EXCEPT ![q] = SubSeq(@, 1, Len(@) - 1)],
          frame |-> [queue |-> q, i |-> i, slots |-> slots,
                     item |-> pend[q][Len(pend[q])]],
          isProcessing |-> TRUE, events |-> <<>>]
    ELSE complete(q, pend, wait)

\* The loop head reading the head of pending without removing it.
loopNoShift(q, i, slots, pend, wait) ==
    IF i < slots /\ Len(pend[q]) > 0
    THEN [pending |-> pend,
          frame |-> [queue |-> q, i |-> i, slots |-> slots, item |-> Head(pend[q])],
          isProcessing |-> TRUE, events |-> <<>>]
    ELSE complete(q, pend, wait)

\* processPending, the loop head: shift the next request and call
\* _makeRequest, or leave the loop.
loop(q, i, slots, pend, wait) ==
    IF i < slots /\ Len(pend[q]) > 0
    THEN [pending |-> [pend EXCEPT ![q] = Tail(@)],
          frame |-> [queue |-> q, i |-> i, slots |-> slots, item |-> Head(pend[q])],
          isProcessing |-> TRUE, events |-> <<>>]
    ELSE complete(q, pend, wait)

\* processPending that keeps one slot back.
processPendingOneShort(q, pend, wait) ==
    IF Len(pend[q]) = 0
    THEN afterProcess(q, pend, wait)
    ELSE onNext(OmnisharpServerProcessRequestStart(q),
                loop(q, 0, MaxSize(q) - Cardinality(DOMAIN wait[q]) - 1, pend, wait))

\* processPending with slots = _maxSize, the waiting requests forgotten.
processPendingAllSlots(q, pend, wait) ==
    IF Len(pend[q]) = 0
    THEN afterProcess(q, pend, wait)
    ELSE onNext(OmnisharpServerProcessRequestStart(q),
                loop(q, 0, MaxSize(q), pend, wait))

\* RequestQueue.processPending up to its first _makeRequest call.
processPending(q, pend, wait) ==
    IF Len(pend[q]) = 0
    THEN afterProcess(q, pend, wait)
    ELSE onNext(OmnisharpServerProcessRequestStart(q),
                loop(q, 0, MaxSize(q) - Cardinality(DOMAIN wait[q]), pend, wait))

\* drain without the check of line 164 (the Priority queue is full).
drainNoPriorityCheck(pend, wait, processing) ==
    IF processing
    THEN [pending |-> pend, frame |-> frame, isProcessing |-> processing, events |-> <<>>]
    ELSE IF isFull(wait, "Normal") /\ isFull(wait, "Deferred")
    THEN [pending |-> pend, frame |-> frame, isProcessing |-> processing, events |-> <<>>]
    ELSE IF hasPending(pend, "Priority")
    THEN processPending("Priority", pend, wait)
    ELSE IF hasPending(pend, "Normal")
    THEN processPending("Normal", pend, wait)
    ELSE afterProcess("Normal", pend, wait)

\* drain that looks at the Priority queue before it checks whether Normal and
\* Deferred are both full.
drainPriorityFirst(pend, wait, processing) ==
    IF processing
    THEN [pending |-> pend, frame |-> frame, isProcessing |-> processing, events |-> <<>>]
    ELSE IF isFull(wait, "Priority")
    THEN [pending |-> pend, frame |-> frame, isProcessing |-> processing, events |-> <<>>]
    ELSE IF hasPending(pend, "Priority")
    THEN processPending("Priority", pend, wait)
    ELSE IF isFull(wait, "Normal") /\ isFull(wait, "Deferred")
    THEN [pending |-> pend, frame |-> frame, isProcessing |-> processing, events |-> <<>>]
    ELSE IF hasPending(pend, "Normal")
    THEN processPending("Normal", pend, wait)
    ELSE afterProcess("Normal", pend, wait)

\* drain that serves Deferred when it has pending requests and Normal
\* otherwise.
drainDeferredFirst(pend, wait, processing) ==
    IF processing
    THEN [pending |-> pend, frame |-> frame, isProcessing |-> processing, events |-> <<>>]
    ELSE IF isFull(wait, "Priority")
    THEN [pending |-> pend, frame |-> frame, isProcessing |-> processing, events |-> <<>>]
    ELSE IF isFull(wait, "Normal") /\ isFull(wait, "Deferred")
    THEN [pending |-> pend, frame |-> frame, isProcessing |-> processing, events |-> <<>>]
    ELSE IF hasPending(pend, "Priority")
    THEN processPending("Priority", pend, wait)
    ELSE IF hasPending(pend, "Deferred")
    THEN processPending("Deferred", pend, wait)
    ELSE processPending("Normal", pend, wait)

\* drain that returns when Normal or Deferred is full.
drainEitherFull(pend, wait, processing) ==
    IF processing
    THEN [pending |-> pend, frame |-> frame, isProcessing |-> processing, events |-> <<>>]
    ELSE IF isFull(wait, "Priority")
    THEN [pending |-> pend, frame |-> frame, isProcessing |-> processing, events |-> <<>>]
    ELSE IF isFull(wait, "Normal") \/ isFull(wait, "Deferred")
    THEN [pending |-> pend, frame |-> frame, isProcessing |-> processing, events |-> <<>>]
    ELSE IF hasPending(pend, "Priority")
    THEN processPending("Priority", pend, wait)
    ELSE IF hasPending(pend, "Normal")
    THEN processPending("Normal", pend, wait)
    ELSE afterProcess("Normal", pend, wait)

\* drain without the reentrancy guard of line 160.
drainNoGuard(pend, wait, processing) ==
    IF isFull(wait, "Priority")
    THEN [pending |-> pend, frame |-> frame, isProcessing |-> processing, events |-> <<>>]
    ELSE IF isFull(wait, "Normal") /\ isFull(wait, "Deferred")
    THEN [pending |-> pend, frame |-> frame, isProcessing |-> processing, events |-> <<>>]
    ELSE IF hasPending(pend, "Priority")
    THEN processPending("Priority", pend, wait)
    ELSE IF hasPending(pend, "Normal")
    THEN processPending("Normal", pend, wait)
    ELSE afterProcess("Normal", pend, wait)

\* RequestQueueCollection.drain up to its first _makeRequest call.
drain(pend, wait, processing) ==
    IF processing
    THEN [pending |-> pend, frame |-> frame, isProcessing |-> processing, events |-> <<>>]
    ELSE IF isFull(wait, "Priority")
    THEN [pending |-> pend, frame |-> frame, isProcessing |-> processing, events |-> <<>>]
    ELSE IF isFull(wait, "Normal") /\ isFull(wait, "Deferred")
    THEN [pending |-> pend, frame |-> frame, isProcessing |-> processing, events |-> <<>>]
    ELSE IF hasPending(pend, "Priority")
    THEN processPending("Priority", pend, wait)
    ELSE IF hasPending(pend, "Normal")
    THEN processPending("Normal", pend, wait)
    ELSE afterProcess("Normal", pend, wait)

\* processPending that records every dispatched request in the waiting map of
\* the Normal queue.
afterMakeRequestNormalMap(id, pend, wait) ==
    LET q == frame.queue
        wait2 == [wait EXCEPT !["Normal"] = (id :> frame.item) @@ @]
    IN  [wait |-> wait2,
         next |-> IF isFull(wait2, q)
                  THEN complete(q, pend, wait2)
                  ELSE loop(q, frame.i + 1, frame.slots, pend, wait2)]

\* processPending after _makeRequest has returned id: lines 98 to 103.
afterMakeRequest(id, pend, wait) ==
    LET q == frame.queue
        wait2 == [wait EXCEPT ![q] = (id :> frame.item) @@ @]
    IN  [wait |-> wait2,
         next |-> IF isFull(wait2, q)
                  THEN complete(q, pend, wait2)
                  ELSE loop(q, frame.i + 1, frame.slots, pend, wait2)]

\* A processPending that catches what _makeRequest throws and goes on with
\* the next pending request.
afterThrowCaught(pend, wait) ==
    loop(frame.queue, frame.i + 1, frame.slots, pend, wait)

\* _makeRequest has thrown at line 97: no try, catch or finally is on the
\* way out of processPending, drain and enqueue, so the statements after the
\* call (lines 98 to 104, and 176 or 188 of drain) are skipped and control is
\* back in the caller of the scheduler with the guard as the pass set it.
afterThrow(pend, wait) ==
    [pending |-> pend, frame |-> NoFrame, isProcessing |-> isProcessing, events |-> <<>>]

-----------------------------------------------------------------------------
\* The state after construction, but for the constructor's argument and the
\* allow-lists.
Constructed ==
    /\ pending = [q \in QueueNames |-> <<>>]
    /\ waiting = [q \in QueueNames |-> <<>>]
    /\ isProcessing = FALSE
    /\ frame = NoFrame
    /\ nextId = 1
    /\ command = <<>>
    /\ dispatched = {}
    /\ onErrorCalls = [r \in Requests |-> 0]
    /\ returned = [r \in Requests |-> 0]
    /\ passPrio = FALSE
    /\ passEnq = {}
    /\ thrown = {}
    /\ emitted = <<>>
    /\ lastOp = NoOp

Init ==
    /\ concurrency \in 1..MaxConcurrency
    /\ lists = [priority |-> PriorityCommands, normal |-> NormalCommands]
    /\ Constructed

\* Where a request is.
InPending(r) == \E q \in QueueNames : \E k \in 1..Len(pending[q]) : pending[q][k] = r
InWaiting(r) == \E q \in QueueNames : \E id \in DOMAIN waiting[q] : waiting[q][id] = r
WaitingIds == UNION {DOMAIN waiting[q] : q \in QueueNames}

Status(r) ==
    IF InPending(r) THEN "pending"
    ELSE IF InWaiting(r) THEN "waiting"
    ELSE IF returned[r] > 0 THEN "returned"
    ELSE IF onErrorCalls[r] > 0 THEN "cancelled"
    ELSE "none"

\* Control has left the scheduler with result res of drain: a frame that
\* was not there before is one more _makeRequest invocation.
Leave(res) ==
    /\ pending' = res.pending
    /\ frame' = res.frame
    /\ isProcessing' = res.isProcessing
    /\ dispatched' = IF res.frame # NoFrame /\ res.frame # frame
                     THEN dispatched \cup {res.frame.item}
                     ELSE dispatched

\* RequestQueueCollection.enqueue, called by the client.
Enqueue(cmd, max) ==
    /\ frame = NoFrame
    /\ Len(command) < max
    /\ LET r == Len(command) + 1
           q == getQueue(cmd)
           pend1 == [pending EXCEPT ![q] = Append(@, r)]
           res == drain(pend1, waiting, isProcessing)
       IN  /\ command' = Append(command, cmd)
           /\ Leave(res)
           /\ emitted' = <<OmnisharpServerEnqueueRequest(q, cmd)>> \o res.events
           /\ passPrio' = (res.frame # NoFrame /\ hasPending(pend1, "Priority"))
           /\ lastOp' = [op |-> "enqueue", req |-> r, tag |-> ""]
    /\ passEnq' = {}
    /\ UNCHANGED <<concurrency, lists, thrown, waiting, nextId, onErrorCalls, returned>>

\* RequestQueueCollection.drain, called by the client.
Drain ==
    /\ frame = NoFrame
    /\ LET res == drain(pending, waiting, isProcessing)
       IN  /\ Leave(res)
           /\ emitted' = res.events
           /\ passPrio' = (res.frame # NoFrame /\ hasPending(pending, "Priority"))
    /\ passEnq' = {}
    /\ lastOp' = [op |-> "drain", req |-> 0, tag |-> ""]
    /\ UNCHANGED <<concurrency, lists, thrown, waiting, nextId, command, onErrorCalls, returned>>

\* A dequeue that goes on to drain.
DequeueThenDrain(cmd, id) ==
    /\ frame = NoFrame
    /\ LET res == dequeue(waiting, cmd, id)
           dr == drain(pending, res.waiting, isProcessing)
       IN  /\ waiting' = res.waiting
           /\ returned' = IF res.request # 0
                          THEN [returned EXCEPT ![res.request] = @ + 1]
                          ELSE returned
           /\ lastOp' = [op |-> "dequeue", req |-> res.request,
                         tag |-> IF res.request # 0 THEN "hit" ELSE "miss"]
           /\ Leave(dr)
           /\ emitted' = (IF res.event
                          THEN <<OmnisharpServerDequeueRequest(
                                     getQueue(cmd), command[res.request], id)>>
                          ELSE <<>>) \o dr.events
           /\ passPrio' = (dr.frame # NoFrame /\ hasPending(pending, "Priority"))
    /\ passEnq' = {}
    /\ UNCHANGED <<concurrency, lists, thrown, nextId, command, onErrorCalls>>

\* RequestQueueCollection.dequeue(cmd, id), called by the client.
Dequeue(cmd, id) ==
    /\ frame = NoFrame
    /\ LET res == dequeue(waiting, cmd, id)
       IN  /\ waiting' = res.waiting
           /\ emitted' = IF res.event
                         THEN <<OmnisharpServerDequeueRequest(
                                    getQueue(cmd), command[res.request], id)>>
                         ELSE <<>>
           /\ returned' = IF res.request # 0
                          THEN [returned EXCEPT ![res.request] = @ + 1]
                          ELSE returned
           /\ lastOp' = [op |-> "dequeue", req |-> res.request,
                         tag |-> IF res.request # 0 THEN "hit" ELSE "miss"]
    /\ UNCHANGED <<concurrency, lists, thrown, pending, isProcessing, frame, nextId, command,
                   dispatched, onErrorCalls, passPrio, passEnq>>

\* A cancelRequest that goes on to drain.
CancelRequestThenDrain(r) ==
    /\ frame = NoFrame
    /\ r \in Enqueued
    /\ LET res == cancelRequest(pending, r)
           dr == drain(res.pending, waiting, isProcessing)
       IN  /\ onErrorCalls' = IF res.onError
                              THEN [onErrorCalls EXCEPT ![r] = @ + 1]
                              ELSE onErrorCalls
           /\ lastOp' = [op |-> "cancel", req |-> IF res.onError THEN r ELSE 0,
                         tag |-> Status(r)]
           /\ Leave(dr)
           /\ emitted' = dr.events
           /\ passPrio' = (dr.frame # NoFrame /\ hasPending(res.pending, "Priority"))
    /\ passEnq' = {}
    /\ UNCHANGED <<concurrency, lists, thrown, waiting, nextId, command, returned>>

\* RequestQueueCollection.cancelRequest(r), called by the client.
CancelRequest(r) ==
    /\ frame = NoFrame
    /\ r \in Enqueued
    /\ LET res == cancelRequest(pending, r)
       IN  /\ pending' = res.pending
           /\ emitted' = <<>>
           /\ onErrorCalls' = IF res.onError
                              THEN [onErrorCalls EXCEPT ![r] = @ + 1]
                              ELSE onErrorCalls
           /\ lastOp' = [op |-> "cancel", req |-> IF res.onError THEN r ELSE 0,
                         tag |-> Status(r)]
    /\ UNCHANGED <<concurrency, lists, thrown, waiting, isProcessing, frame, nextId, command,
                   dispatched, returned, passPrio, passEnq>>

\* _makeRequest returns the next sequence id and processPending goes on.
MakeRequestReturn ==
    /\ frame # NoFrame
    /\ LET res == afterMakeRequest(nextId, pending, waiting)
       IN  /\ waiting' = res.wait
           /\ Leave(res.next)
           /\ emitted' = res.next.events
           /\ passPrio' = (res.next.frame # NoFrame /\ passPrio)
           /\ passEnq' = IF res.next.frame # NoFrame THEN passEnq ELSE {}
    /\ nextId' = nextId + 1
    /\ lastOp' = [op |-> "makeRequestReturn", req |-> frame.item, tag |-> ""]
    /\ UNCHANGED <<concurrency, lists, thrown, command, onErrorCalls, returned>>

\* _makeRequest throws, and the exception leaves the scheduler.
MakeRequestThrow ==
    /\ frame # NoFrame
    /\ LET res == afterThrow(pending, waiting)
       IN  /\ Leave(res)
           /\ emitted' = res.events
           /\ passPrio' = (res.frame # NoFrame /\ passPrio)
           /\ passEnq' = IF res.frame # NoFrame THEN passEnq ELSE {}
    /\ thrown' = thrown \cup {frame.item}
    /\ lastOp' = [op |-> "makeRequestThrow", req |-> frame.item, tag |-> ""]
    /\ UNCHANGED <<concurrency, lists, waiting, nextId, command, onErrorCalls, returned>>

\* RequestQueueCollection.enqueue, called from inside _makeRequest.
ReentrantEnqueue(cmd, max) ==
    /\ frame # NoFrame
    /\ Len(command) < max
    /\ LET r == Len(command) + 1
           q == getQueue(cmd)
           pend1 == [pending EXCEPT ![q] = Append(@, r)]
       IN  /\ command' = Append(command, cmd)
           /\ Leave(drain(pend1, waiting, isProcessing))
           /\ emitted' = <<OmnisharpServerEnqueueRequest(q, cmd)>>
                         \o drain(pend1, waiting, isProcessing).events
           /\ passEnq' = passEnq \cup {r}
           /\ lastOp' = [op |-> "reentrantEnqueue", req |-> r, tag |-> ""]
    /\ UNCHANGED <<concurrency, lists, thrown, waiting, nextId, onErrorCalls, returned, passPrio>>

\* RequestQueueCollection.drain, called from inside _makeRequest.
ReentrantDrain ==
    /\ frame # NoFrame
    /\ Leave(drain(pending, waiting, isProcessing))
    /\ emitted' = drain(pending, waiting, isProcessing).events
    /\ lastOp' = [op |-> "reentrantDrain", req |-> 0, tag |-> ""]
    /\ UNCHANGED <<concurrency, lists, thrown, waiting, nextId, command, onErrorCalls, returned,
                   passPrio, passEnq>>

Next ==
    \/ \E cmd \in Commands : Enqueue(cmd, MaxReq)
    \/ Drain
    \/ \E cmd \in Commands, id \in WaitingIds \cup {nextId} : Dequeue(cmd, id)
    \/ \E r \in Requests : CancelRequest(r)
    \/ MakeRequestReturn
    \/ \E cmd \in Commands : ReentrantEnqueue(cmd, MaxReq)
    \/ ReentrantDrain

Spec == Init /\ [][Next]_vars

\* More requests, fewer callers: no cancellation, and a _makeRequest that
\* calls nothing back.
NextLoad ==
    \/ \E cmd \in Commands : Enqueue(cmd, MaxLoad)
    \/ Drain
    \/ \E cmd \in Commands, id \in WaitingIds \cup {nextId} : Dequeue(cmd, id)
    \/ MakeRequestReturn

SpecLoad == Init /\ [][NextLoad]_vars

\* The classifier over arbitrary allow-lists: every pair of subsets of the
\* commands, those with a command on both lists included.
InitClassify ==
    /\ concurrency \in 1..MaxConcurrency
    /\ lists \in [priority : SUBSET Commands, normal : SUBSET Commands]
    /\ Constructed

NextClassify ==
    \/ \E cmd \in Commands : Enqueue(cmd, MaxClassify)
    \/ MakeRequestReturn

SpecClassify == InitClassify /\ [][NextClassify]_vars

\* The caps over a range of concurrency arguments, 0 included: requests are
\* enqueued and dispatched and none is answered, so every queue fills up to
\* its cap.
InitCaps ==
    /\ concurrency \in 0..MaxCapsConcurrency
    /\ lists = [priority |-> PriorityCommands, normal |-> NormalCommands]
    /\ Constructed

NextCaps ==
    \/ \E cmd \in Commands : Enqueue(cmd, MaxLoad)
    \/ MakeRequestReturn

SpecCaps == InitCaps /\ [][NextCaps]_vars

\* A client that never stops.  So that the states stay finitely many, a new
\* Priority request takes the number of a Priority request that has been
\* answered and _makeRequest hands out the least id that is not outstanding.
LeastFreeId(wait) ==
    LET ids == UNION {DOMAIN wait[q] : q \in QueueNames}
    IN  CHOOSE id \in 1..(Cardinality(ids) + 1) :
            id \notin ids /\ \A j \in 1..(id - 1) : j \in ids

\* RequestQueueCollection.enqueue of a new Priority request, numbered r.
EnqueueAgain(r) ==
    /\ frame = NoFrame
    /\ r \in Enqueued
    /\ getQueue(command[r]) = "Priority"
    /\ returned[r] > 0
    /\ LET pend1 == [pending EXCEPT !["Priority"] = Append(@, r)]
           res == drain(pend1, waiting, isProcessing)
       IN  /\ pending' = res.pending
           /\ emitted' = <<OmnisharpServerEnqueueRequest("Priority", command[r])>>
                         \o res.events
           /\ frame' = res.frame
           /\ isProcessing' = res.isProcessing
           /\ dispatched' = IF res.frame # NoFrame
                            THEN (dispatched \ {r}) \cup {res.frame.item}
                            ELSE dispatched \ {r}
           /\ passPrio' = (res.frame # NoFrame)
    /\ returned' = [returned EXCEPT ![r] = 0]
    /\ passEnq' = {}
    /\ lastOp' = [op |-> "enqueue", req |-> r, tag |-> "again"]
    /\ UNCHANGED <<concurrency, lists, thrown, waiting, nextId, command, onErrorCalls>>

\* The response to the request waiting under id arrives: dequeue with its
\* command and its id.
Answer(id) ==
    \E q \in QueueNames :
        /\ id \in DOMAIN waiting[q]
        /\ Dequeue(command[waiting[q][id]], id)

\* _makeRequest returns, with ids that are unique among the outstanding
\* requests only.
MakeRequestReturnReusing ==
    /\ frame # NoFrame
    /\ LET res == afterMakeRequest(nextId, pending, waiting)
       IN  /\ waiting' = res.wait
           /\ Leave(res.next)
           /\ emitted' = res.next.events
           /\ passPrio' = (res.next.frame # NoFrame /\ passPrio)
           /\ passEnq' = IF res.next.frame # NoFrame THEN passEnq ELSE {}
           /\ nextId' = LeastFreeId(res.wait)
    /\ lastOp' = [op |-> "makeRequestReturn", req |-> frame.item, tag |-> ""]
    /\ UNCHANGED <<concurrency, lists, thrown, command, onErrorCalls, returned>>

\* The caller of dequeue calls drain next, before anything else.
DrainAfterDequeue == lastOp.op = "dequeue" /\ Drain

NextLive ==
    \/ lastOp.op # "dequeue" /\ \E cmd \in Commands : Enqueue(cmd, MaxLive)
    \/ lastOp.op # "dequeue" /\ \E r \in 1..MaxLive : EnqueueAgain(r)
    \/ lastOp.op # "dequeue" /\ \E id \in 1..MaxLive : Answer(id)
    \/ DrainAfterDequeue
    \/ MakeRequestReturnReusing

\* Every _makeRequest call returns, every waiting request is answered, and
\* the drain that follows a dequeue is called.
FairLive ==
    /\ WF_vars(MakeRequestReturnReusing)
    /\ WF_vars(DrainAfterDequeue)
    /\ \A id \in 1..MaxLive : SF_vars(lastOp.op # "dequeue" /\ Answer(id))

InitLive ==
    /\ concurrency \in 1..MaxLiveConcurrency
    /\ lists = [priority |-> PriorityCommands, normal |-> NormalCommands]
    /\ Constructed

SpecLive == InitLive /\ [][NextLive]_vars /\ FairLive

\* The worked scenario: concurrency 4, the client enqueues the scenario's
\* requests in order and any requests after them; responses and drain calls
\* come at any time.
InitScenario ==
    /\ concurrency = 4
    /\ lists = [priority |-> PriorityCommands, normal |-> NormalCommands]
    /\ Constructed

NextScenario ==
    \/ /\ Len(command) < Len(Scenario)
       /\ Enqueue(Scenario[Len(command) + 1], Len(Scenario))
    \/ /\ Len(command) >= Len(Scenario)
       /\ \E cmd \in Commands : Enqueue(cmd, Len(Scenario) + MaxExtra)
    \/ Drain
    \/ \E cmd \in Commands, id \in WaitingIds \cup {nextId} : Dequeue(cmd, id)
    \/ MakeRequestReturn

SpecScenario == InitScenario /\ [][NextScenario]_vars

\* A client that stops: finitely many requests, some cancelled, some enqueued
\* from inside _makeRequest; every response arrives and drain is called
\* after every dequeue.
NextFinite ==
    \/ lastOp.op # "dequeue" /\ \E cmd \in Commands : Enqueue(cmd, MaxLive)
    \/ lastOp.op # "dequeue" /\ \E r \in 1..MaxLive : CancelRequest(r)
    \/ lastOp.op # "dequeue" /\ \E id \in 1..MaxLive : Answer(id)
    \/ DrainAfterDequeue
    \/ MakeRequestReturn
    \/ \E cmd \in Commands : ReentrantEnqueue(cmd, MaxLive)

FairFinite ==
    /\ WF_vars(MakeRequestReturn)
    /\ WF_vars(DrainAfterDequeue)
    /\ \A id \in 1..MaxLive : SF_vars(lastOp.op # "dequeue" /\ Answer(id))

SpecFinite == InitLive /\ [][NextFinite]_vars /\ FairFinite

\* A _makeRequest that can throw.
NextThrow ==
    \/ Next
    \/ MakeRequestThrow

SpecThrow == Init /\ [][NextThrow]_vars

-----------------------------------------------------------------------------
\* Properties.

Class(r) == getQueue(command[r])
NumWaiting(q) == Cardinality(DOMAIN waiting[q])
Without(s, r) == LET keep(x) == x # r IN SelectSeq(s, keep)
\* How often r occurs in the pending sequence and the waiting map of q.
Occurrences(q, r) ==
    Cardinality({k \in 1..Len(pending[q]) : pending[q][k] = r})
    + Cardinality({id \in DOMAIN waiting[q] : waiting[q][id] = r})

\* C1: in every reachable state, reentrant enqueue calls included, each
\* queue holds at most its cap in waiting: 1 for Priority, concurrency for
\* Normal, max(floor(concurrency / 4), 2) for Deferred.
C1_WaitingWithinCap ==
    /\ NumWaiting("Priority") <= 1
    /\ NumWaiting("Normal") <= concurrency
    /\ NumWaiting("Deferred") <= Max(concurrency \div 4, 2)

\* Normal is at its cap with a request pending behind it, a Deferred
\* request is in waiting too, and a drain has just been tried.
C1_Witness ==
    /\ NumWaiting("Normal") = concurrency
    /\ NumWaiting("Deferred") >= 1
    /\ hasPending(pending, "Normal")
    /\ lastOp.op = "drain"

\* C2: while one Priority request is in waiting, no step invokes dispatch
\* and every pending request stays pending (unless it is cancelled).
C2_PriorityFullBlocksDispatch ==
    [][NumWaiting("Priority") >= 1 =>
          /\ dispatched' = dispatched
          /\ \A r \in Requests :
                InPending(r) => InPending(r)' \/ onErrorCalls'[r] > onErrorCalls[r]]_vars

\* A drain call has returned with Priority full while Normal and Deferred
\* both have pending requests and free slots.
C2_Witness ==
    /\ NumWaiting("Priority") = 1
    /\ lastOp.op = "drain"
    /\ hasPending(pending, "Normal") /\ NumWaiting("Normal") < concurrency
    /\ hasPending(pending, "Deferred") /\ NumWaiting("Deferred") < 2

\* C3: a drain pass that begins with Priority work pending invokes dispatch
\* for Priority-class requests only.
C3_PriorityPassOnly ==
    frame # NoFrame /\ passPrio =>
        frame.queue = "Priority" /\ Class(frame.item) = "Priority"

\* Such a pass is dispatching while Normal has a pending request and a slot.
C3_Witness ==
    /\ frame # NoFrame /\ passPrio
    /\ hasPending(pending, "Normal") /\ NumWaiting("Normal") < concurrency

\* C4: when dispatch is invoked for B, it has been invoked before for every
\* request A of B's class that was enqueued before B and is not cancelled.
C4_FifoWithinClass ==
    frame # NoFrame =>
        \A a \in Enqueued :
            a < frame.item /\ Class(a) = Class(frame.item) /\ onErrorCalls[a] = 0
                => a \in dispatched

\* B is dispatched after an earlier request of its class, with a cancelled
\* request of the class between them.
C4_Witness ==
    /\ frame # NoFrame
    /\ \E a, x \in Enqueued :
          /\ a < x /\ x < frame.item
          /\ Class(a) = Class(frame.item) /\ Class(x) = Class(frame.item)
          /\ a \in dispatched /\ onErrorCalls[x] = 1

\* C5: an enqueued request that is neither cancelled nor returned by dequeue
\* is exactly once in pending or waiting of its class's queue and in no
\* other queue; only the request that is inside _makeRequest is in neither.
C5_ExactlyOnePlace ==
    \A r \in Enqueued :
        onErrorCalls[r] = 0 /\ returned[r] = 0 =>
            \A q \in QueueNames :
                Occurrences(q, r) = IF q = Class(r) /\ r # frame.item THEN 1 ELSE 0

\* Between operations: one request pending, one waiting, one returned.
C5_Witness ==
    /\ frame = NoFrame
    /\ \E a, b, c \in Enqueued :
          InPending(a) /\ InWaiting(b) /\ returned[c] = 1

\* C6: a request is completed at most once: a cancelled request is never
\* dispatched or returned by dequeue, and a returned request is in no
\* waiting map any more, so no further dequeue returns it.
C6_CompletedAtMostOnce ==
    \A r \in Requests :
        /\ onErrorCalls[r] + returned[r] <= 1
        /\ onErrorCalls[r] > 0 => r \notin dispatched /\ ~InWaiting(r)
        /\ returned[r] > 0 =>
              \A cmd \in Commands, id \in WaitingIds : dequeue(waiting, cmd, id).request # r

\* A dequeue has found nothing, with one request cancelled and one returned.
C6_Witness ==
    /\ lastOp.op = "dequeue" /\ lastOp.tag = "miss"
    /\ \E a, b \in Enqueued : onErrorCalls[a] = 1 /\ returned[b] = 1

\* C7: cancelRequest of a pending request removes it from pending and
\* invokes its onError, for the first and only time; cancelRequest of any
\* other request (a second cancel among them) changes nothing.
C7_CancelPending ==
    [][lastOp'.op = "cancel" =>
          IF lastOp'.tag = "pending"
          THEN LET r == lastOp'.req
               IN  /\ r \in Enqueued
                   /\ pending' = [q \in QueueNames |-> Without(pending[q], r)]
                   /\ pending'[Class(r)] # pending[Class(r)]
                   /\ onErrorCalls[r] = 0
                   /\ onErrorCalls' = [onErrorCalls EXCEPT ![r] = 1]
                   /\ UNCHANGED <<waiting, returned, dispatched, frame>>
          ELSE UNCHANGED <<pending, waiting, onErrorCalls, returned, dispatched, frame>>]_vars

\* A cancelled request has been cancelled a second time.
C7_Witness ==
    lastOp.op = "cancel" /\ lastOp.tag = "cancelled"

\* C8: cancelRequest of a request in waiting invokes no callback and leaves
\* pending and waiting as they are; every request in waiting is returned by
\* dequeue with its command and its sequence id.
C8_CancelWaiting ==
    /\ [][lastOp'.op = "cancel" /\ lastOp'.tag = "waiting" =>
            UNCHANGED <<pending, waiting, onErrorCalls, returned>>]_vars
    /\ [](\A q \in QueueNames : \A id \in DOMAIN waiting[q] :
            dequeue(waiting, command[waiting[q][id]], id).request = waiting[q][id])

\* A request in waiting has been cancelled.
C8_Witness ==
    lastOp.op = "cancel" /\ lastOp.tag = "waiting"

\* C9 as stated: a request enqueued from inside the dispatch callback is
\* not dispatched during the drain pass that is running.
C9_NotDispatchedInSamePass ==
    frame # NoFrame => frame.item \notin passEnq

\* C9 as amended: an enqueue call made from inside the dispatch callback
\* only appends the request to pending; its drain call returns without
\* invoking dispatch and leaves the running pass as it is.
C9_NestedDrainReturns ==
    [][lastOp'.op = "reentrantEnqueue" =>
          LET r == lastOp'.req
          IN  /\ pending' = [pending EXCEPT ![getQueue(command'[r])] = Append(@, r)]
              /\ UNCHANGED <<waiting, frame, isProcessing, dispatched, nextId>>]_vars

\* The callback has enqueued a request into the queue that is being drained
\* and that still has a free slot.
C9_Witness ==
    /\ lastOp.op = "reentrantEnqueue"
    /\ Class(lastOp.req) = frame.queue
    /\ frame.i + 1 < frame.slots

\* C10: an enqueue of a Priority request, made while no drain is running,
\* the Priority queue has a free slot and every earlier Priority request is
\* completed, dispatches that request.
C10_PriorityDispatchedOnEnqueue ==
    /\ lastOp.op = "enqueue"
    /\ Class(lastOp.req) = "Priority"
    /\ NumWaiting("Priority") = 0
    /\ \A p \in Enqueued \ {lastOp.req} :
          Class(p) = "Priority" => returned[p] > 0 \/ onErrorCalls[p] > 0
    => frame.item = lastOp.req


\* C11 as stated: whenever a Priority request is in waiting, it is the only
\* Priority request in waiting and no Normal or Deferred request is in
\* waiting with it.
C11_PriorityWaitsAlone ==
    NumWaiting("Priority") >= 1 =>
        /\ NumWaiting("Priority") = 1
        /\ NumWaiting("Normal") = 0
        /\ NumWaiting("Deferred") = 0

\* C11: at most one Priority request is in waiting, and while one is in
\* waiting no request enters the waiting map of Normal or Deferred; the
\* requests of Normal and Deferred that were dispatched before it stay in
\* waiting with it until they are dequeued.
C11_NothingJoinsPriority ==
    /\ [](NumWaiting("Priority") <= 1)
    /\ [][NumWaiting("Priority") >= 1 =>
            /\ DOMAIN waiting'["Normal"] \subseteq DOMAIN waiting["Normal"]
            /\ DOMAIN waiting'["Deferred"] \subseteq DOMAIN waiting["Deferred"]]_vars

\* A Priority request is in waiting together with a Normal request that was
\* dispatched before it, a Normal request is pending with a free Normal
\* slot, and a drain has just been tried.
C11_Witness ==
    /\ NumWaiting("Priority") = 1
    /\ NumWaiting("Normal") = 1
    /\ hasPending(pending, "Normal")
    /\ ~isFull(waiting, "Normal")
    /\ lastOp.op = "drain"


\* C13: dequeue(command, id) with an id that is not in the waiting map of
\* the queue the command selects returns nothing (0), emits no dequeue
\* event and leaves the pending sequences and waiting maps of all three
\* queues as they were, also when the id is in another queue's map.
C13_DequeueUnknownId ==
    /\ [](\A cmd \in Commands, id \in 1..nextId :
            id \notin DOMAIN waiting[getQueue(cmd)] =>
                dequeue(waiting, cmd, id) =
                    [request |-> 0, waiting |-> waiting, event |-> FALSE])
    /\ [][lastOp'.op = "dequeue" /\ lastOp'.tag = "miss" =>
            UNCHANGED <<pending, waiting, returned, onErrorCalls, dispatched,
                        frame, isProcessing>>]_vars

\* A dequeue has just missed while requests of two classes are in waiting:
\* one of the calls tried names an id of the other class's map.
C13_Witness ==
    /\ lastOp.op = "dequeue"
    /\ lastOp.tag = "miss"
    /\ NumWaiting("Normal") >= 1
    /\ NumWaiting("Deferred") >= 1

\* C14: a dequeue removes at most the one matching entry of one waiting map
\* and nothing else: it invokes dispatch for no request and leaves every
\* pending sequence as it was, so a pending request whose slot it freed
\* stays pending; only an enqueue or a drain (and the pass it began)
\* dispatches.
C14_DequeueOnlyRemoves ==
    /\ [][lastOp'.op = "dequeue" =>
            /\ UNCHANGED <<pending, dispatched, frame, isProcessing, onErrorCalls>>
            /\ \E q \in QueueNames :
                /\ \A p \in QueueNames \ {q} : waiting'[p] = waiting[p]
                /\ Cardinality(DOMAIN waiting[q] \ DOMAIN waiting'[q]) <= 1
                /\ \A id \in DOMAIN waiting'[q] :
                      id \in DOMAIN waiting[q] /\ waiting'[q][id] = waiting[q][id]]_vars
    /\ [][dispatched' # dispatched =>
            lastOp'.op \in {"enqueue", "drain", "makeRequestReturn"}]_vars

\* A dequeue has just returned a request, and a request of its class is
\* pending with the slot free and nothing else in the way of a drain.
C14_Witness ==
    /\ lastOp.op = "dequeue"
    /\ lastOp.tag = "hit"
    /\ hasPending(pending, Class(lastOp.req))
    /\ ~isFull(waiting, Class(lastOp.req))
    /\ ~isFull(waiting, "Priority")
    /\ ~isProcessing


\* C15: when _makeRequest throws, control is back in the caller of the
\* scheduler at once (no dispatch is running any more), nothing the pass had
\* done is undone and nothing more is done: pending, waiting, the guard and
\* the set of dispatched requests stay as they were at the throw; and the
\* request whose dispatch threw is never put back in pending nor dispatched
\* again.
C15_ThrowPropagates ==
    /\ [][lastOp'.op = "makeRequestThrow" =>
            /\ frame' = NoFrame
            /\ UNCHANGED <<pending, waiting, dispatched, isProcessing,
                           onErrorCalls, returned, nextId>>]_vars
    /\ [](\A r \in thrown : frame.item # r /\ ~InPending(r) /\ ~InWaiting(r))

\* _makeRequest has just thrown while another request of the same queue was
\* pending with a slot left for it in the pass.
C15_Witness ==
    /\ lastOp.op = "makeRequestThrow"
    /\ lastOp.req \in thrown
    /\ hasPending(pending, Class(lastOp.req))
    /\ NumWaiting(Class(lastOp.req)) + 1 < MaxSize(Class(lastOp.req))


\* C16: isEmpty() is true exactly when no request is pending in any of the
\* three queues; the requests in waiting do not count, so it is true with
\* requests in flight as long as none is pending.
C16_IsEmptyIffNothingPending ==
    /\ isEmpty(pending) <=> \A r \in Enqueued : ~InPending(r)
    /\ isEmpty(pending) <=> \A q \in QueueNames : pending[q] = <<>>

\* isEmpty() is true while requests of two classes are in waiting.
C16_Witness ==
    /\ isEmpty(pending)
    /\ NumWaiting("Normal") >= 1
    /\ NumWaiting("Priority") >= 1


\* C17: a request is in one class for its whole lifetime, the class its
\* command classifies to: it is pending only there, it is dispatched from
\* there and it waits only there; a cancel of it changes no other queue; and
\* no step changes the command, and so the class, of an enqueued request.
C17_OneClassForLife ==
    /\ [](\A r \in Enqueued : \A q \in QueueNames \ {Class(r)} :
            Occurrences(q, r) = 0 /\ ~(frame.item = r /\ frame.queue = q))
    /\ [](\A r \in Enqueued : \A q \in QueueNames \ {Class(r)} :
            cancelRequest(pending, r).pending[q] = pending[q])
    /\ [][\A r \in Enqueued : command'[r] = command[r]]_vars

\* Requests of the three classes are in the scheduler at once: a Deferred
\* and a Priority request in waiting, a Normal request pending.
C17_Witness ==
    /\ NumWaiting("Deferred") >= 1
    /\ NumWaiting("Priority") >= 1
    /\ hasPending(pending, "Normal")
    /\ \A q \in QueueNames : \A k \in 1..Len(pending[q]) : Class(pending[q][k]) = q


\* C18: classification is total and depends on the command alone: every
\* command gets one of the three classes; a command on the Priority list is
\* Priority, also when it is on the Normal list too; a command on the
\* Normal list only is Normal; every other command is Deferred; and every
\* enqueued request is held by the queue of the class this rule gives its
\* command.
C18_Classification ==
    LET Expected(cmd) == IF cmd \in lists.priority THEN "Priority"
                         ELSE IF cmd \in lists.normal THEN "Normal"
                         ELSE "Deferred"
    IN  /\ \A cmd \in Commands :
              getQueue(cmd) \in QueueNames /\ getQueue(cmd) = Expected(cmd)
        /\ \A r \in Enqueued :
              \/ Occurrences(Expected(command[r]), r) = 1
              \/ frame.item = r /\ frame.queue = Expected(command[r])

\* A request whose command is on both lists is in waiting in the Priority
\* queue, and a request whose command is on neither list has been enqueued.
C18_Witness ==
    /\ \E id \in DOMAIN waiting["Priority"] :
          command[waiting["Priority"][id]] \in lists.priority \cap lists.normal
    /\ \E r \in Enqueued : command[r] \notin lists.priority \cup lists.normal


\* C19: for every concurrency argument c of the range, 0 included, the caps
\* are 1 for Priority, c for Normal and, for Deferred, the larger of 2 and
\* the whole quotient k of c by 4 (4k <= c < 4k + 4); c = 4 gives 4 and 2.
\* The queues fill up to these numbers: with no Priority request in the
\* way, a request is left pending only behind a waiting map of that size.
C19_Caps ==
    LET Cap(q) == CASE q = "Priority" -> 1
                    [] q = "Normal" -> concurrency
                    [] q = "Deferred" ->
                         LET k == CHOOSE j \in 0..concurrency :
                                      4 * j <= concurrency /\ concurrency < 4 * j + 4
                         IN  IF k > 2 THEN k ELSE 2
    IN  /\ \A q \in QueueNames : MaxSize(q) = Cap(q)
        /\ concurrency = 4 => MaxSize("Normal") = 4 /\ MaxSize("Deferred") = 2
        /\ \A q \in QueueNames : NumWaiting(q) <= Cap(q)
        /\ \A q \in {"Normal", "Deferred"} :
              frame = NoFrame /\ hasPending(pending, q) /\ NumWaiting("Priority") = 0
                  => NumWaiting(q) = Cap(q)

\* With concurrency 12 the Deferred queue has three requests in waiting and
\* a fourth pending behind them.
C19_Witness ==
    /\ concurrency = 12
    /\ NumWaiting("Deferred") = 3
    /\ hasPending(pending, "Deferred")
    /\ frame = NoFrame

\* C20 as stated: for every concurrency argument c >= 1 the Deferred cap is
\* strictly less than the Normal cap, and Deferred never has as many
\* requests in waiting as Normal is allowed.
C20_DeferredBelowNormal ==
    concurrency >= 1 =>
        /\ MaxSize("Deferred") < MaxSize("Normal")
        /\ NumWaiting("Deferred") < MaxSize("Normal")

\* C20: for every concurrency argument c >= 3 the Deferred cap is strictly
\* less than the Normal cap and Deferred never has as many requests in
\* waiting as Normal is allowed; for c = 2 the two caps are equal and for
\* c = 1 the Deferred cap, 2, is the greater.
C20_DeferredBelowNormalFromThree ==
    /\ concurrency >= 3 =>
          /\ MaxSize("Deferred") < MaxSize("Normal")
          /\ NumWaiting("Deferred") < MaxSize("Normal")
    /\ concurrency = 2 => MaxSize("Deferred") = MaxSize("Normal")
    /\ concurrency = 1 => MaxSize("Deferred") > MaxSize("Normal")

\* With concurrency 3 the Deferred queue is full with two requests in
\* waiting and a third pending, one short of what Normal is allowed.
C20_Witness ==
    /\ concurrency = 3
    /\ NumWaiting("Deferred") = 2
    /\ hasPending(pending, "Deferred")
    /\ frame = NoFrame


\* No Priority request is pending, being dispatched or in waiting.
PriorityQuiet ==
    /\ ~hasPending(pending, "Priority")
    /\ NumWaiting("Priority") = 0
    /\ ~(frame # NoFrame /\ frame.queue = "Priority")

NothingAnswered == \A r \in Requests : returned[r] = 0

\* C21: with concurrency 4 and nothing answered, the five Normal requests
\* leave ids 1..4 in Normal's waiting map and request 5 pending; the
\* Priority request enqueued next is dispatched at once under id 5; and as
\* long as id 5 stays in Priority's waiting map, no step (drain, enqueue or
\* the dequeue of a Normal request) dispatches anything or takes request 5
\* out of pending.
C21_Scenario ==
    /\ [](Len(command) = 5 /\ frame = NoFrame /\ NothingAnswered =>
            /\ waiting["Normal"] = (1 :> 1) @@ (2 :> 2) @@ (3 :> 3) @@ (4 :> 4)
            /\ pending["Normal"] = <<5>>
            /\ NumWaiting("Priority") = 0)
    /\ [](Len(command) = 6 /\ NothingAnswered =>
            \/ frame.item = 6 /\ frame.queue = "Priority"
            \/ frame = NoFrame /\ waiting["Priority"] = (5 :> 6)
                               /\ pending["Normal"] = <<5>>)
    /\ [][(5 \in DOMAIN waiting["Priority"] /\ waiting["Priority"][5] = 6
           /\ 5 \in DOMAIN waiting'["Priority"]) =>
            /\ dispatched' = dispatched
            /\ frame' = NoFrame
            /\ Len(pending'["Normal"]) > 0 /\ Head(pending'["Normal"]) = 5]_vars

\* The Priority request waits under id 5, request 5 is pending, a Normal
\* request has been answered so that Normal has a free slot, and a drain has
\* just been tried.
C21_Witness ==
    /\ waiting["Priority"] = (5 :> 6)
    /\ pending["Normal"] = <<5>>
    /\ NumWaiting("Normal") = 3
    /\ lastOp.op = "drain"


\* C22: under finite load, with every _makeRequest call returning, every
\* waiting request answered with its own command and id and drain called
\* after every dequeue, every pending request is eventually dispatched or
\* cancelled, and from some time on nothing is pending or being dispatched.
C22_FiniteLoadLiveness ==
    /\ \A r \in 1..MaxLive :
          (r \in Enqueued /\ InPending(r))
              ~> (r \in dispatched \/ onErrorCalls[r] > 0)
    /\ <>[](isEmpty(pending) /\ frame = NoFrame)

\* A request has just been cancelled while a Deferred request is pending
\* behind the Priority request in waiting.
C22_Witness ==
    /\ lastOp.op = "cancel"
    /\ lastOp.tag = "pending"
    /\ hasPending(pending, "Deferred")
    /\ NumWaiting("Priority") = 1


\* C23: when a top-level enqueue or drain call has returned (the pass it
\* began, if any, is over) and a request is still pending, a request is in
\* waiting; a state with a pending request, nothing in waiting and no
\* dispatch running comes only after a dequeue, or a cancel that followed
\* one, with no drain call since.
C23_NoStuckState ==
    frame = NoFrame /\ ~isEmpty(pending) =>
        IF lastOp.op \in {"enqueue", "drain", "makeRequestReturn"}
        THEN WaitingIds # {}
        ELSE WaitingIds = {} => lastOp.op \in {"dequeue", "cancel"}

\* A drain call has just returned without dispatching the pending Normal
\* request, because the Priority request is still in waiting.
C23_Witness ==
    /\ frame = NoFrame
    /\ lastOp.op = "drain"
    /\ hasPending(pending, "Normal")
    /\ NumWaiting("Normal") = 0
    /\ WaitingIds = DOMAIN waiting["Priority"]
    /\ NumWaiting("Priority") = 1


\* C24 as stated: the guard is cleared on every exit from a drain pass,
\* the exit by an exception of _makeRequest included: whenever no pass is
\* running the guard is false.
C24_GuardClearedOnEveryExit == frame = NoFrame => ~isProcessing

\* C25 as stated: a request whose dispatch threw is still in pending or in
\* waiting, or its onError has been invoked.
C25_ThrownRequestNotLost ==
    \A r \in thrown : InPending(r) \/ InWaiting(r) \/ onErrorCalls[r] > 0


\* Normal and Deferred are both full.
BothFull == isFull(waiting, "Normal") /\ isFull(waiting, "Deferred")

\* C26: when Normal and Deferred are both full, a drain call, the one at the
\* end of enqueue included, returns at once: it dispatches no request of any
\* class, a pending Priority request included, and leaves pending, waiting
\* and the guard as they were.
C26_BothFullDrainReturns ==
    /\ [](BothFull =>
            drain(pending, waiting, isProcessing) =
                [pending |-> pending, frame |-> frame, isProcessing |-> isProcessing, events |-> <<>>])
    /\ [][BothFull /\ lastOp'.op \in {"drain", "enqueue"} =>
            /\ UNCHANGED <<waiting, isProcessing, dispatched, frame>>
            /\ lastOp'.op = "drain" => pending' = pending
            /\ lastOp'.op = "enqueue" =>
                  \E q \in QueueNames :
                      pending' = [pending EXCEPT ![q] = Append(@, Len(command) + 1)]]_vars

\* A drain has just been called with Normal and Deferred both full, the
\* Priority queue empty in waiting and a Priority request pending.
C26_Witness ==
    /\ BothFull
    /\ lastOp.op = "drain"
    /\ hasPending(pending, "Priority")
    /\ NumWaiting("Priority") = 0
    /\ ~isProcessing


Min(a, b) == IF a <= b THEN a ELSE b

\* Inside a processPending call that nothing re-enters: the slack and the
\* number of pending requests the call began with.  The call has dispatched
\* frame.i requests before the one in frame.
Slack0 == frame.slots
Pending0 == frame.i + 1 + Len(pending[frame.queue])

\* C27: a processPending call that began with slack s and p pending requests
\* dispatches min(s, p) requests: each is the head of pending, goes into
\* waiting under the id _makeRequest returned, and the call goes on exactly
\* while fewer than min(s, p) have been dispatched; the p - min(s, p)
\* requests that remain keep their order; the call ends as soon as the
\* queue is full, and a queue that is full is not dispatched from.
C27_ProcessPendingCount ==
    /\ [](frame # NoFrame =>
            /\ Slack0 = MaxSize(frame.queue) - NumWaiting(frame.queue) + frame.i
            /\ frame.i + 1 <= Min(Slack0, Pending0))
    /\ [][frame # NoFrame /\ lastOp'.op = "makeRequestReturn" =>
            LET q == frame.queue
            IN  /\ waiting' = [waiting EXCEPT ![q] = (nextId :> frame.item) @@ @]
                /\ IF frame.i + 1 < Min(Slack0, Pending0)
                   THEN /\ frame' = [queue |-> q, i |-> frame.i + 1,
                                     slots |-> frame.slots,
                                     item |-> Head(pending[q])]
                        /\ pending'[q] = Tail(pending[q])
                        /\ ~isFull(waiting', q)
                   ELSE /\ frame'.queue # q
                        /\ pending'[q] = pending[q]
                        /\ Len(pending'[q]) = Pending0 - Min(Slack0, Pending0)
                        /\ isFull(waiting', q) \/ pending[q] = <<>>]_vars
    /\ [][\A q \in QueueNames :
            frame' # frame /\ frame'.queue = q /\ frame'.i = 0 =>
                /\ ~isFull(waiting, q)
                /\ frame'.slots = MaxSize(q) - NumWaiting(q)
                /\ \E pend \in {pending, [pending EXCEPT ![q] = Append(@, Len(command) + 1)]} :
                      /\ pend[q] # <<>>
                      /\ frame'.item = Head(pend[q])
                      /\ pending'[q] = Tail(pend[q])]_vars

\* The second dispatch of a Deferred call that began with slack 2 and three
\* pending requests: one request stays pending.
C27_Witness ==
    /\ frame.queue = "Deferred"
    /\ frame.i = 1
    /\ frame.slots = 2
    /\ Len(pending["Deferred"]) = 1


\* C28: in a pass that began with no Priority request pending, only Normal
\* and Deferred requests are dispatched, no Normal dispatch follows a
\* Deferred dispatch, the pass begins with Deferred only if Normal has
\* nothing it can dispatch, and when the pass ends each of the two queues is
\* full or has nothing pending but requests enqueued during the pass.
C28_NormalBeforeDeferred ==
    /\ [](frame # NoFrame /\ ~passPrio => frame.queue \in {"Normal", "Deferred"})
    /\ [][frame.queue = "Deferred" => frame'.queue # "Normal"]_vars
    /\ [][frame = NoFrame /\ frame'.queue = "Deferred" =>
            isFull(waiting, "Normal") \/ ~hasPending(pending', "Normal")]_vars
    /\ [][frame # NoFrame /\ ~passPrio /\ frame' = NoFrame =>
            \A q \in {"Normal", "Deferred"} :
                \/ isFull(waiting', q)
                \/ \A k \in 1..Len(pending'[q]) : pending'[q][k] \in passEnq]_vars

\* One pass has dispatched a Normal request and is now dispatching a
\* Deferred request.
C28_Witness ==
    /\ frame.queue = "Deferred"
    /\ ~passPrio
    /\ lastOp.op = "makeRequestReturn"
    /\ Class(lastOp.req) = "Normal"


\* C29: a drain call made while the guard is set changes nothing: whatever
\* is pending or waiting, drain returns the scheduler as it found it, guard
\* set; the call made from inside _makeRequest dispatches nothing and leaves
\* pending, waiting, the guard and the running dispatch alone; and the step
\* that ends the outer pass clears the guard and dispatches nothing, so the
\* nested call is not made up for.
C29_NestedDrainNoOp ==
    /\ [](drain(pending, waiting, TRUE) =
            [pending |-> pending, frame |-> frame, isProcessing |-> TRUE, events |-> <<>>])
    /\ [](frame # NoFrame => isProcessing)
    /\ [][lastOp'.op = "reentrantDrain" =>
            UNCHANGED <<pending, waiting, isProcessing, frame, dispatched, nextId>>]_vars
    /\ [][frame # NoFrame /\ frame' = NoFrame =>
            dispatched' = dispatched /\ ~isProcessing']_vars

\* drain has just been called from inside the dispatch of a Normal or
\* Deferred request while a Priority request is pending and the Priority
\* queue is empty in waiting.
C29_Witness ==
    /\ lastOp.op = "reentrantDrain"
    /\ frame.queue # "Priority"
    /\ hasPending(pending, "Priority")
    /\ NumWaiting("Priority") = 0


\* C30: a top-level drain that finds the Priority queue neither full nor
\* pending and a Deferred request pending with Deferred not full dispatches
\* from Deferred, at once when Normal is full or has nothing pending and
\* after Normal's dispatches otherwise; the Deferred call ends only with
\* Deferred full or empty of pending requests; and after a top-level call
\* has returned, a Deferred request is pending only if Deferred is full or a
\* Priority request is in waiting.
C30_NormalNeverBlocksDeferred ==
    /\ [](/\ frame = NoFrame /\ ~isProcessing
          /\ ~isFull(waiting, "Priority") /\ ~hasPending(pending, "Priority")
          /\ hasPending(pending, "Deferred") /\ ~isFull(waiting, "Deferred")
          => LET res == drain(pending, waiting, isProcessing)
             IN  IF isFull(waiting, "Normal") \/ ~hasPending(pending, "Normal")
                 THEN /\ res.frame =
                            [queue |-> "Deferred", i |-> 0,
                             slots |-> MaxSize("Deferred") - NumWaiting("Deferred"),
                             item |-> Head(pending["Deferred"])]
                      /\ res.pending["Normal"] = pending["Normal"]
                 ELSE res.frame.queue = "Normal")
    /\ [][frame.queue = "Normal" /\ frame'.queue # "Normal" =>
            IF hasPending(pending, "Deferred") /\ ~isFull(waiting, "Deferred")
            THEN frame'.queue = "Deferred"
            ELSE frame' = NoFrame]_vars
    /\ [][frame.queue = "Deferred" /\ frame' = NoFrame =>
            isFull(waiting', "Deferred") \/ pending'["Deferred"] = <<>>]_vars
    /\ [](/\ frame = NoFrame
          /\ lastOp.op \in {"enqueue", "drain", "makeRequestReturn"}
          /\ hasPending(pending, "Deferred")
          => isFull(waiting, "Deferred") \/ NumWaiting("Priority") = 1)

\* A drain has just begun to dispatch a Deferred request while Normal is
\* full and has a request pending.
C30_Witness ==
    /\ frame.queue = "Deferred"
    /\ frame.i = 0
    /\ lastOp.op = "drain"
    /\ isFull(waiting, "Normal")
    /\ hasPending(pending, "Normal")


\* C31: dequeue(command, id) looks only in the queue the command classifies
\* to.  With the id of a request waiting in another class's queue it
\* returns nothing and leaves that request in waiting, its slot taken; with
\* a command of the request's own class it returns the request and frees
\* the slot; and a request leaves waiting only by a dequeue that returns it.
C31_DequeueOnlyOwnClass ==
    /\ [](\A q \in QueueNames : \A id \in DOMAIN waiting[q] : \A cmd \in Commands :
            LET res == dequeue(waiting, cmd, id)
            IN  IF getQueue(cmd) = q
                THEN /\ res.request = waiting[q][id]
                     /\ id \notin DOMAIN res.waiting[q]
                ELSE /\ res.request = 0
                     /\ res.waiting = waiting
                     /\ isFull(waiting, q) => isFull(res.waiting, q))
    /\ [][\A r \in Enqueued :
            InWaiting(r) /\ ~InWaiting(r)' =>
                /\ lastOp'.op = "dequeue"
                /\ lastOp'.req = r
                /\ returned'[r] = returned[r] + 1]_vars

\* A dequeue has just returned nothing while the only requests in waiting
\* are Normal ones that fill the Normal queue, with a Normal request
\* pending behind them.
C31_Witness ==
    /\ lastOp.op = "dequeue"
    /\ lastOp.tag = "miss"
    /\ isFull(waiting, "Normal")
    /\ hasPending(pending, "Normal")
    /\ NumWaiting("Priority") = 0
    /\ NumWaiting("Deferred") = 0

\* C33: cancelRequest(r) changes at most the pending sequence of the queue
\* r's command classifies to: it takes r out, once, and keeps the other
\* requests of that queue in their order; the other two pending sequences
\* and every waiting map stay as they were, and no request is dispatched:
\* the guard and the set of dispatched requests do not change.
C33_CancelFrame ==
    /\ [](\A r \in Enqueued :
            LET res == cancelRequest(pending, r)
            IN  /\ res.pending = [pending EXCEPT ![Class(r)] = Without(@, r)]
                /\ Len(res.pending[Class(r)]) >= Len(pending[Class(r)]) - 1)
    /\ [][lastOp'.op = "cancel" =>
            /\ UNCHANGED <<waiting, dispatched, frame, isProcessing, nextId>>
            /\ \E q \in QueueNames :
                  /\ \A p \in QueueNames \ {q} : pending'[p] = pending[p]
                  /\ \/ pending'[q] = pending[q]
                     \/ \E k \in 1..Len(pending[q]) :
                           pending'[q] = splice(pending[q], k)]_vars

\* A pending request has just been cancelled while a drain, had it been
\* called, would have dispatched one of the requests left pending.
C33_Witness ==
    /\ lastOp.op = "cancel"
    /\ lastOp.req # 0
    /\ frame = NoFrame
    /\ drain(pending, waiting, isProcessing).frame # NoFrame



\* C32: Priority precedence holds mid-pass: once the dispatch callback of a
\* drain pass that is dispatching Normal or Deferred requests has
\* reentrantly enqueued a Priority request, the pass dispatches no further
\* Normal or Deferred request while that Priority request is pending.
C32_PriorityPrecedesMidPass ==
    [][/\ frame # NoFrame
       /\ frame.queue \in {"Normal", "Deferred"}
       /\ \E r \in passEnq : Class(r) = "Priority" /\ Status(r) = "pending"
       /\ lastOp'.op = "makeRequestReturn"
       => \/ frame' = NoFrame
          \/ frame'.queue = "Priority"]_vars



\* The events of one type among evs.
OfType(evs, type) == LET is(e) == e.type = type IN SelectSeq(evs, is)

RECURSIVE Bracket(_, _)

\* Whether a processPending call is open after the events evs, given
\* whether one was open before them; "bad" when a start event comes inside
\* an open call or a complete event outside one.
Bracket(evs, open) ==
    IF evs = <<>> THEN open
    ELSE IF Head(evs).type = "ProcessRequestStart"
    THEN IF open = "closed" THEN Bracket(Tail(evs), "open") ELSE "bad"
    ELSE IF Head(evs).type = "ProcessRequestComplete"
    THEN IF open = "open" THEN Bracket(Tail(evs), "closed") ELSE "bad"
    ELSE Bracket(Tail(evs), open)

InCall(f) == IF f # NoFrame THEN "open" ELSE "closed"

\* The events of a processPending call on queue q up to its first dispatch
\* or, when the queue has no free slot, up to its end.
CallEvents(q) ==
    IF ~hasPending(pending, q) THEN <<>>
    ELSE IF isFull(waiting, q)
    THEN <<OmnisharpServerProcessRequestStart(q), OmnisharpServerProcessRequestComplete>>
    ELSE <<OmnisharpServerProcessRequestStart(q)>>

\* C34: the events are ordered around the operations.  A dispatch happens
\* inside an open processPending call: after the start event of the call on
\* its queue and before the complete event, and start and complete events
\* alternate.  A drain emits one start and complete pair for a queue it
\* processes whose pending is non-empty, also when the queue has no free
\* slot and nothing is dispatched, and none for a queue with empty pending.
\* An enqueue emits one enqueue event, with the queue and the command, and
\* a dequeue emits one dequeue event, with the queue, the command and the
\* id, when it returns a request and none when it returns nothing.
C34_EventsOrdered ==
    /\ [][Bracket(emitted', InCall(frame)) = InCall(frame')]_vars
    /\ [][lastOp'.op \in {"enqueue", "drain", "makeRequestReturn"} /\ frame' # NoFrame
            => IF frame'.i = 0
               THEN emitted'[Len(emitted')] = OmnisharpServerProcessRequestStart(frame'.queue)
               ELSE emitted' = <<>>]_vars
    /\ [][lastOp'.op = "drain" =>
            IF isProcessing \/ isFull(waiting, "Priority") \/ BothFull
            THEN emitted' = <<>>
            ELSE IF hasPending(pending, "Priority")
            THEN emitted' = <<OmnisharpServerProcessRequestStart("Priority")>>
            ELSE IF hasPending(pending, "Normal") /\ ~isFull(waiting, "Normal")
            THEN emitted' = <<OmnisharpServerProcessRequestStart("Normal")>>
            ELSE emitted' = CallEvents("Normal") \o CallEvents("Deferred")]_vars
    /\ [][IF lastOp'.op \in {"enqueue", "reentrantEnqueue"}
          THEN /\ Head(emitted') =
                      OmnisharpServerEnqueueRequest(getQueue(command'[lastOp'.req]),
                                                    command'[lastOp'.req])
               /\ Len(OfType(emitted', "EnqueueRequest")) = 1
          ELSE OfType(emitted', "EnqueueRequest") = <<>>]_vars
    /\ [][IF lastOp'.op = "dequeue" /\ lastOp'.tag = "hit"
          THEN \E q \in QueueNames : \E id \in DOMAIN waiting[q] :
                  /\ waiting[q][id] = lastOp'.req
                  /\ id \notin DOMAIN waiting'[q]
                  /\ emitted' = <<OmnisharpServerDequeueRequest(
                                      q, command[lastOp'.req], id)>>
          ELSE OfType(emitted', "DequeueRequest") = <<>>]_vars

\* A drain has just processed the Normal queue, which had a pending request
\* and no free slot: it emitted the start and the complete event and
\* dispatched nothing.
C34_Witness ==
    /\ lastOp.op = "drain"
    /\ frame = NoFrame
    /\ emitted = <<OmnisharpServerProcessRequestStart("Normal"),
                   OmnisharpServerProcessRequestComplete>>
    /\ hasPending(pending, "Normal")

=============================================================================
